---- MODULE Spec2Model ----
(***************************************************************************)
(* Model of mostro-score-web: the metrics engine (web/js/metrics.js), the  *)
(* tag lookup (js/nostr.js) and the application loop (app.js).             *)
(*                                                                         *)
(* Representation:                                                         *)
(*  - a JavaScript string is a sequence of one-character strings, so that  *)
(*    parseInt can be computed character by character;                     *)
(*  - a JavaScript value that may be null/undefined is a record            *)
(*    [kind |-> "null" | "undefined" | "string" | "number", ...];          *)
(*  - a real number x/y is the record [num |-> x, den |-> y] (exact        *)
(*    arithmetic; the rounding of IEEE doubles is not modelled);           *)
(*  - a call that throws yields the record TypeError.                      *)
(***************************************************************************)
EXTENDS Integers, Sequences, FiniteSets, TLC

VARIABLES
    clock,                \* Math.floor(Date.now() / 1000), the ambient clock
    currentSubscription,  \* app.js: Null, or the handle of the open subscription
    currentEvents,        \* app.js: [devFeeEvents, orderEvents]
    openSubscriptions,    \* number of subscriptions opened and not closed
    rendered,             \* the metrics last passed to renderReport, or NoReport
    outcome,              \* what the last handler did
    delivered,            \* how many events of each kind the subscriptions
                          \* delivered since the last startAnalysis
    call                  \* a direct invocation of one function of metrics.js

vars == <<clock, currentSubscription, currentEvents, openSubscriptions,
          rendered, outcome, delivered, call>>

SECONDS_PER_DAY == 86400

\* ------------------------------------------------------------ JS values

Null == [kind |-> "null"]

Undefined == [kind |-> "undefined"]

Str(chars) == [kind |-> "string", chars |-> chars]

Num(n) == [kind |-> "number", num |-> n]

TypeError == [kind |-> "TypeError"]

Infinity == [kind |-> "Infinity"]

\* x < v for a number x and v a number or Infinity
LessThan(x, v) == v.kind = "Infinity" \/ x < v.num

\* JavaScript truthiness of a value that is null, undefined or a string.
Truthy(v) == v.kind = "string" /\ v.chars # << >>

Max(a, b) == IF a >= b THEN a ELSE b

Min(a, b) == IF a <= b THEN a ELSE b

\* String literals of the source.
S_d == <<"d">>

S_s == <<"s">>

S_amt == <<"a", "m", "t">>

S_success == <<"s", "u", "c", "c", "e", "s", "s">>

\* ------------------------------------------------------------ nostr.js

\* event.tags.find(t => t[0] === tagName): index of the first tag whose first
\* element is tagName, 0 when there is none (an empty tag has t[0] undefined).
RECURSIVE FindTag(_, _, _)
FindTag(tags, tagName, i) ==
    IF i > Len(tags) THEN 0
    ELSE IF Len(tags[i]) >= 1 /\ tags[i][1] = tagName THEN i
    ELSE FindTag(tags, tagName, i + 1)

\* getTagValue(event, tagName): event.tags.find on an event without a tags
\* field throws; tag[1] of a one-element tag is undefined.
getTagValue(event, tagName) ==
    IF ~event.hasTags THEN TypeError
    ELSE LET i == FindTag(event.tags, tagName, 1)
         IN  IF i = 0 THEN Null
             ELSE IF Len(event.tags[i]) >= 2 THEN Str(event.tags[i][2])
             ELSE Undefined

\* ------------------------------------------------------------ parseInt

Digits == {"0", "1", "2", "3", "4", "5", "6", "7", "8", "9"}

DigitVal(c) ==
    CASE c = "0" -> 0 [] c = "1" -> 1 [] c = "2" -> 2 [] c = "3" -> 3
      [] c = "4" -> 4 [] c = "5" -> 5 [] c = "6" -> 6 [] c = "7" -> 7
      [] c = "8" -> 8 [] c = "9" -> 9

\* Number of leading white-space characters from position i.
RECURSIVE SkipSpace(_, _)
SkipSpace(chars, i) ==
    IF i <= Len(chars) /\ chars[i] = " " THEN SkipSpace(chars, i + 1) ELSE i

\* Value of the longest run of decimal digits starting at position i.
RECURSIVE ParseDigits(_, _, _)
ParseDigits(chars, i, acc) ==
    IF i <= Len(chars) /\ chars[i] \in Digits
    THEN ParseDigits(chars, i + 1, acc * 10 + DigitVal(chars[i]))
    ELSE acc

\* parseInt(str, 10): skip white space, an optional sign, then the longest
\* prefix of digits; NaN when there is no digit.
parseInt(chars) ==
    LET i    == SkipSpace(chars, 1)
        neg  == i <= Len(chars) /\ chars[i] = "-"
        sgn  == i <= Len(chars) /\ chars[i] \in {"-", "+"}
        j    == IF sgn THEN i + 1 ELSE i
    IN  IF j > Len(chars) \/ chars[j] \notin Digits
        THEN [nan |-> TRUE, val |-> 0]
        ELSE [nan |-> FALSE,
              val |-> IF neg THEN 0 - ParseDigits(chars, j, 0)
                             ELSE ParseDigits(chars, j, 0)]

\* ------------------------------------------------------------ sorting

\* Insert x into the ascending sequence s after every element <= x
\* (Array.prototype.sort with (a, b) => a - b is stable).
RECURSIVE InsertNum(_, _)
InsertNum(s, x) ==
    IF s = << >> THEN <<x>>
    ELSE IF x < Head(s) THEN <<x>> \o s
    ELSE <<Head(s)>> \o InsertNum(Tail(s), x)

RECURSIVE SortNum(_)
SortNum(s) ==
    IF s = << >> THEN << >>
    ELSE InsertNum(SortNum(SubSeq(s, 1, Len(s) - 1)), s[Len(s)])

RECURSIVE SumSeq(_)
SumSeq(s) == IF s = << >> THEN 0 ELSE Head(s) + SumSeq(Tail(s))

\* Mutant of FilterGE: the bound itself is excluded.
FilterGT(s, bound) == SelectSeq(s, LAMBDA ts : ts > bound)

\* timestamps.filter(ts => ts >= bound)
FilterGE(s, bound) == SelectSeq(s, LAMBDA ts : ts >= bound)

\* ------------------------------------------------------------ metrics.js

\* Mutant of computeTradeStats: the median of an even count is the upper of
\* the two middle values.
computeTradeStatsUpperMedian(amounts) ==
    IF Len(amounts) = 0
    THEN [min |-> 0, max |-> 0, mean |-> [num |-> 0, den |-> 1], median |-> 0]
    ELSE LET sorted == SortNum(amounts)
             len    == Len(sorted)
         IN  [min    |-> sorted[1],
              max    |-> sorted[len],
              mean   |-> [num |-> SumSeq(amounts), den |-> Len(amounts)],
              median |-> sorted[len \div 2 + 1]]

\* computeTradeStats(amounts): mean is the exact quotient sum/length.
computeTradeStats(amounts) ==
    IF Len(amounts) = 0
    THEN [min |-> 0, max |-> 0, mean |-> [num |-> 0, den |-> 1], median |-> 0]
    ELSE LET sorted == SortNum(amounts)
             len    == Len(sorted)
             sum    == SumSeq(amounts)
         IN  [min    |-> sorted[1],
              max    |-> sorted[len],
              mean   |-> [num |-> sum, den |-> Len(amounts)],
              median |-> IF len % 2 = 0
                         THEN (sorted[len \div 2] + sorted[len \div 2 + 1]) \div 2
                         ELSE sorted[len \div 2 + 1]]

\* Mutant of computeRollingWindows: the 30-day and 90-day bounds exchanged.
computeRollingWindowsSwapped(timestamps, now) ==
    [last7d  |-> Len(FilterGE(timestamps, now - (7 * SECONDS_PER_DAY))),
     last30d |-> Len(FilterGE(timestamps, now - (90 * SECONDS_PER_DAY))),
     last90d |-> Len(FilterGE(timestamps, now - (30 * SECONDS_PER_DAY)))]

\* computeRollingWindows(timestamps, now)
computeRollingWindows(timestamps, now) ==
    LET day7  == now - (7 * SECONDS_PER_DAY)
        day30 == now - (30 * SECONDS_PER_DAY)
        day90 == now - (90 * SECONDS_PER_DAY)
    IN  [last7d  |-> Len(FilterGE(timestamps, day7)),
         last30d |-> Len(FilterGE(timestamps, day30)),
         last90d |-> Len(FilterGE(timestamps, day90))]

SetMin(S) == CHOOSE x \in S : \A y \in S : x <= y

\* Array.from(set).sort((a, b) => a - b)
RECURSIVE SortSet(_)
SortSet(S) ==
    IF S = {} THEN << >>
    ELSE LET m == SetMin(S) IN <<m>> \o SortSet(S \ {m})

\* Mutant of GapLoop: the gap between two active days counts one of them.
RECURSIVE GapLoopInclusive(_, _, _, _)
GapLoopInclusive(days, i, maxGap, prevDay) ==
    IF i > Len(days) THEN [maxGap |-> maxGap, prevDay |-> prevDay]
    ELSE LET gap == Max(0, days[i] - prevDay)
         IN  GapLoopInclusive(days, i + 1, Max(maxGap, gap), days[i])

\* The for-loop over the sorted active days: [maxGap, prevDay] after it.
RECURSIVE GapLoop(_, _, _, _)
GapLoop(days, i, maxGap, prevDay) ==
    IF i > Len(days) THEN [maxGap |-> maxGap, prevDay |-> prevDay]
    ELSE LET gap == Max(0, days[i] - prevDay - 1)
         IN  GapLoop(days, i + 1, Max(maxGap, gap), days[i])

\* Mutant of computeActivityConsistency: the window is 90 days long.
computeActivityConsistency90(timestamps, now) ==
    LET day30Ago      == now - (90 * SECONDS_PER_DAY)
        recent        == FilterGE(timestamps, day30Ago)
        activeDaysSet == {recent[i] \div SECONDS_PER_DAY : i \in 1..Len(recent)}
    IN  IF Cardinality(activeDaysSet) = 0
        THEN [activeDays |-> 0, maxGap |-> 30]
        ELSE LET days       == SortSet(activeDaysSet)
                 today      == now \div SECONDS_PER_DAY
                 day30Start == day30Ago \div SECONDS_PER_DAY
                 loop       == GapLoop(days, 1, 0, day30Start)
                 finalGap   == Max(0, today - loop.prevDay)
             IN  [activeDays |-> Cardinality(activeDaysSet),
                  maxGap     |-> Max(loop.maxGap, finalGap)]

\* computeActivityConsistency(timestamps, now)
computeActivityConsistency(timestamps, now) ==
    LET day30Ago      == now - (30 * SECONDS_PER_DAY)
        recent        == FilterGE(timestamps, day30Ago)
        activeDaysSet == {recent[i] \div SECONDS_PER_DAY : i \in 1..Len(recent)}
    IN  IF Cardinality(activeDaysSet) = 0
        THEN [activeDays |-> 0, maxGap |-> 30]
        ELSE LET days       == SortSet(activeDaysSet)
                 today      == now \div SECONDS_PER_DAY
                 day30Start == day30Ago \div SECONDS_PER_DAY
                 loop       == GapLoop(days, 1, 0, day30Start)
                 finalGap   == Max(0, today - loop.prevDay)
             IN  [activeDays |-> Cardinality(activeDaysSet),
                  maxGap     |-> Max(loop.maxGap, finalGap)]

\* Mutant of calculateScore: each term is floored before the sum.
calculateScorePerTerm(daysActive, volumeSats, successfulOrders) ==
    (IF daysActive.num >= 365 * SECONDS_PER_DAY THEN 30
     ELSE daysActive.num \div ((365 * SECONDS_PER_DAY) \div 30))
    + (IF volumeSats >= 100000000 THEN 40
       ELSE volumeSats \div (100000000 \div 40))
    + (IF successfulOrders >= 100 THEN 30
       ELSE (successfulOrders * 30) \div 100)

\* calculateScore(daysActive, volumeSats, successfulOrders), daysActive being
\* the real number daysActive.num / SECONDS_PER_DAY.  The three capped terms
\*    min(1, daysActive/365) * 30       = min(30, num / 1051200)
\*    min(1, volumeSats/100000000) * 40 = min(40, volumeSats / 2500000)
\*    min(1, successfulOrders/100) * 30 = min(30, 3 * successfulOrders / 10)
\* are each split into a whole part q and a remainder r over its denominator;
\* the floor of their sum is q1 + q2 + q3 + floor(r1/1051200 + r2/2500000 +
\* r3/10).  The last floor is computed over the common denominator
\* 3285000000 = 1051200 * 3125 = 2500000 * 1314 = 10 * 328500000, in units of
\* a thousand so that no intermediate exceeds 32 bits.
calculateScore(daysActive, volumeSats, successfulOrders) ==
    LET ageDen == (365 * SECONDS_PER_DAY) \div 30
        volDen == 100000000 \div 40
        ageCap == daysActive.num >= 365 * SECONDS_PER_DAY
        volCap == volumeSats >= 100000000
        cntCap == successfulOrders >= 100
        q1 == IF ageCap THEN 30 ELSE daysActive.num \div ageDen
        r1 == IF ageCap THEN 0 ELSE daysActive.num % ageDen
        q2 == IF volCap THEN 40 ELSE volumeSats \div volDen
        r2 == IF volCap THEN 0 ELSE volumeSats % volDen
        q3 == IF cntCap THEN 30 ELSE (successfulOrders * 30) \div 100
        r3 == IF cntCap THEN 0 ELSE ((successfulOrders * 30) % 100) \div 10
        hi == (r1 \div 1000) * 3125 + (r2 \div 1000) * 1314 + r3 * 328500
        lo == (r1 % 1000) * 3125 + (r2 % 1000) * 1314
    IN  q1 + q2 + q3 + ((hi + (lo \div 1000)) \div 3285000)

\* [...devFeeEvents].sort((a, b) => a.created_at - b.created_at): stable
\* insertion of event x into the sequence s sorted by created_at.
RECURSIVE InsertEvent(_, _)
InsertEvent(s, x) ==
    IF s = << >> THEN <<x>>
    ELSE IF x.created_at < Head(s).created_at THEN <<x>> \o s
    ELSE <<Head(s)>> \o InsertEvent(Tail(s), x)

RECURSIVE SortEvents(_)
SortEvents(s) ==
    IF s = << >> THEN << >>
    ELSE InsertEvent(SortEvents(SubSeq(s, 1, Len(s) - 1)), s[Len(s)])

\* Mutant of FirstDevFeeTs: the first event of the collection as delivered.
FirstDevFeeTsUnsorted(devFeeEvents) ==
    IF Len(devFeeEvents) > 0
    THEN Num(devFeeEvents[1].created_at)
    ELSE Null

\* firstDevFeeTs (lines 16-21)
FirstDevFeeTs(devFeeEvents) ==
    IF Len(devFeeEvents) > 0
    THEN Num(SortEvents(devFeeEvents)[1].created_at)
    ELSE Null

\* ordersMap is a JavaScript Map: a sequence of [key, value] entries in
\* insertion order.  MapIndex is the position of key, 0 when absent.
RECURSIVE MapIndex(_, _, _)
MapIndex(map, key, i) ==
    IF i > Len(map) THEN 0
    ELSE IF map[i].key = key THEN i
    ELSE MapIndex(map, key, i + 1)

\* ordersMap.set(key, value): an existing key keeps its position.
MapSet(map, key, value) ==
    LET i == MapIndex(map, key, 1)
    IN  IF i = 0 THEN Append(map, [key |-> key, value |-> value])
        ELSE [map EXCEPT ![i] = [key |-> key, value |-> value]]

\* Mutant of Supersedes: every later-iterated event replaces the stored one.
SupersedesAlways(event, existing) == TRUE

\* Mutant of Supersedes: >= in place of >.
SupersedesOnTie(event, existing) == event.created_at >= existing.created_at

\* The test of line 43, for a key that is already stored:
\* event.created_at > existing.created_at
Supersedes(event, existing) == event.created_at > existing.created_at

\* The loop over orderEvents (lines 28-47).  acc holds ordersMap, firstOrderTs
\* and lastOrderTs; acc.threw is set when getTagValue throws.
RECURSIVE DedupLoop(_, _, _)
DedupLoop(orderEvents, i, acc) ==
    IF i > Len(orderEvents) \/ acc.threw THEN acc
    ELSE LET event   == orderEvents[i]
             eventTs == event.created_at
             first   == IF LessThan(eventTs, acc.firstOrderTs)
                        THEN Num(eventTs) ELSE acc.firstOrderTs
             last    == IF eventTs > acc.lastOrderTs
                        THEN eventTs ELSE acc.lastOrderTs
             orderId == getTagValue(event, S_d)
             index   == MapIndex(acc.ordersMap, orderId.chars, 1)
             map     == IF Truthy(orderId)
                        THEN IF index = 0
                                \/ Supersedes(event, acc.ordersMap[index].value)
                             THEN MapSet(acc.ordersMap, orderId.chars, event)
                             ELSE acc.ordersMap
                        ELSE acc.ordersMap
         IN  IF orderId = TypeError
             THEN [acc EXCEPT !.threw = TRUE]
             ELSE DedupLoop(orderEvents, i + 1,
                            [threw        |-> FALSE,
                             ordersMap    |-> map,
                             firstOrderTs |-> first,
                             lastOrderTs  |-> last])

Dedup(orderEvents) ==
    DedupLoop(orderEvents, 1,
              [threw        |-> FALSE,
               ordersMap    |-> << >>,
               firstOrderTs |-> Infinity,
               lastOrderTs  |-> 0])

\* Whether a canonical order adds its amount (lines 64-71).
AmountOf(event) ==
    LET amtStr == getTagValue(event, S_amt)
        amount == parseInt(amtStr.chars)
    IN  IF Truthy(amtStr) /\ ~amount.nan /\ amount.val > 0
        THEN <<amount.val>> ELSE << >>

\* The loop over ordersMap.values() (lines 55-73).
RECURSIVE FinalLoop(_, _, _)
FinalLoop(map, i, acc) ==
    IF i > Len(map) THEN acc
    ELSE LET event  == map[i].value
             status == getTagValue(event, S_s)
         IN  IF status = Str(S_success)
             THEN FinalLoop(map, i + 1,
                    [successfulOrders |-> acc.successfulOrders + 1,
                     successfulTradeTimestamps |->
                         Append(acc.successfulTradeTimestamps, event.created_at),
                     totalVolumeSats |->
                         acc.totalVolumeSats + SumSeq(AmountOf(event)),
                     tradeAmounts |-> acc.tradeAmounts \o AmountOf(event)])
             ELSE FinalLoop(map, i + 1, acc)

FinalState(map) ==
    FinalLoop(map, 1,
              [successfulOrders          |-> 0,
               successfulTradeTimestamps |-> << >>,
               totalVolumeSats           |-> 0,
               tradeAmounts              |-> << >>])

\* hasTradeStats (line 128)
HasTradeStats(tradeAmounts) == Len(tradeAmounts) > 0

\* daysActive (lines 75-87), as the real number num / SECONDS_PER_DAY.
DaysActive(firstDevFeeTs, firstOrderTs, lastOrderTs, now) ==
    IF firstDevFeeTs # Null
    THEN [num |-> now - firstDevFeeTs.num, den |-> SECONDS_PER_DAY]
    ELSE IF lastOrderTs > 0
    THEN [num |-> lastOrderTs - firstOrderTs.num, den |-> SECONDS_PER_DAY]
    ELSE [num |-> 0, den |-> SECONDS_PER_DAY]

\* computeMetrics(devFeeEvents, orderEvents): now is read from the clock
\* (line 13).  The value is TypeError when getTagValue throws.
computeMetrics(devFeeEvents, orderEvents) ==
    LET now           == clock
        firstDevFeeTs == FirstDevFeeTs(devFeeEvents)
        dedup         == Dedup(orderEvents)
        final         == FinalState(dedup.ordersMap)
        daysActive    == DaysActive(firstDevFeeTs, dedup.firstOrderTs,
                                    dedup.lastOrderTs, now)
        tradeStats    == computeTradeStats(final.tradeAmounts)
        rollingWindows == computeRollingWindows(final.successfulTradeTimestamps, now)
        activityConsistency ==
            computeActivityConsistency(final.successfulTradeTimestamps, now)
        daysSinceLast == IF dedup.lastOrderTs > 0
                         THEN (now - dedup.lastOrderTs) \div SECONDS_PER_DAY
                         ELSE 0
        score == calculateScore(daysActive, final.totalVolumeSats,
                                final.successfulOrders)
    IN  IF dedup.threw THEN TypeError
        ELSE [kind             |-> "report",
              firstActivity    |-> firstDevFeeTs,
              daysActive       |-> daysActive,
              hasDevFeeEvents  |-> firstDevFeeTs # Null,
              lastTrade        |-> IF dedup.lastOrderTs > 0
                                   THEN Num(dedup.lastOrderTs) ELSE Null,
              daysSinceLast    |-> daysSinceLast,
              trades7d         |-> rollingWindows.last7d,
              trades30d        |-> rollingWindows.last30d,
              trades90d        |-> rollingWindows.last90d,
              activeDays30d    |-> activityConsistency.activeDays,
              maxInactiveGap   |-> activityConsistency.maxGap,
              successfulTrades |-> final.successfulOrders,
              totalVolumeSats  |-> final.totalVolumeSats,
              minTrade         |-> tradeStats.min,
              maxTrade         |-> tradeStats.max,
              meanTrade        |-> tradeStats.mean,
              medianTrade      |-> tradeStats.median,
              hasTradeStats    |-> HasTradeStats(final.tradeAmounts),
              trustScore       |-> score,
              totalOrderEvents |-> Len(orderEvents),
              uniqueOrders     |-> Len(dedup.ordersMap),
              devFeeCount      |-> Len(devFeeEvents)]

\* ------------------------------------------------------------ events

DEV_FEE_EVENT_KIND == 8383

ORDER_EVENT_KIND == 38383

\* The clock when the page is loaded.
Now0 == 500 * SECONDS_PER_DAY + 3600

\* How far the clock moves in one step, and how many steps are explored.
ClockStep == SECONDS_PER_DAY \div 2

MaxTicks == 1

MaxOrderEvents == 3

MaxDevFeeEvents == 1

Days(n) == n * SECONDS_PER_DAY

OrderEvent(created_at, tags) ==
    [kind |-> ORDER_EVENT_KIND, created_at |-> created_at,
     hasTags |-> TRUE, tags |-> tags]

DevFeeEvent(created_at) ==
    [kind |-> DEV_FEE_EVENT_KIND, created_at |-> created_at,
     hasTags |-> TRUE,
     tags |-> << <<<<"z">>, <<"d", "e", "v">>>>, <<<<"y">>, <<"m">>>> >>]

S_canceled == <<"c", "a", "n", "c", "e", "l", "e", "d">>

S_pending == <<"p", "e", "n", "d", "i", "n", "g">>

\* The order events a relay may deliver.
OrderUniverse ==
    { \* order a, successful, 5000 sats, two days ago
      OrderEvent(Now0 - Days(2),
                 << <<S_d, <<"a">>>>, <<S_s, S_success>>,
                    <<S_amt, <<"5", "0", "0", "0">>>> >>),
      \* order a republished with the same created_at and another status
      OrderEvent(Now0 - Days(2),
                 << <<S_d, <<"a">>>>, <<S_s, S_canceled>>,
                    <<S_amt, <<"5", "0", "0", "0">>>> >>),
      \* order b, successful, 15000 sats, forty days ago
      OrderEvent(Now0 - Days(40),
                 << <<S_d, <<"b">>>>, <<S_s, S_success>>,
                    <<S_amt, <<"1", "5", "0", "0", "0">>>> >>),
      \* order b, an earlier publication, still pending, without amt
      OrderEvent(Now0 - Days(41),
                 << <<S_d, <<"b">>>>, <<S_s, S_pending>> >>),
      \* order c, successful, amt not a number, exactly seven days ago
      OrderEvent(Now0 - Days(7),
                 << <<S_d, <<"c">>>>, <<S_s, S_success>>,
                    <<S_amt, <<"a", "b", "c">>>> >>),
      \* order d, successful, amt with a numeric prefix, dated one day after
      \* the page was loaded
      OrderEvent(Now0 + Days(1),
                 << <<S_d, <<"d">>>>, <<S_s, S_success>>,
                    <<S_amt, <<"1", "2", "a", "b", "c">>>> >>),
      \* an event whose d tag has one element, after an empty tag
      OrderEvent(Now0 - Days(95),
                 << << >>, <<S_d>>, <<S_s, S_success>>,
                    <<S_amt, <<"7", "0", "0">>>> >>) }

\* Objects that are not valid Nostr events (the relay pool does not deliver
\* them; computeMetrics and getTagValue are exported and accept them).
MalformedUniverse ==
    { \* an event without a tags field
      [kind |-> ORDER_EVENT_KIND, created_at |-> Now0 - Days(1),
       hasTags |-> FALSE, tags |-> << >>] }

\* The dev-fee events a relay may deliver: one 400 days old, one dated ten
\* days after the page was loaded.
DevFeeUniverse ==
    { DevFeeEvent(Now0 - Days(400)), DevFeeEvent(Now0 + Days(10)) }

\* ------------------------------------------------------------ app.js

NoReport == [kind |-> "none"]

NoCall == [fn |-> "none"]

Subscription == [kind |-> "subscription"]

NoEvents == [devFeeEvents |-> << >>, orderEvents |-> << >>]

NoneDelivered == [devFee |-> 0, order |-> 0]

Init ==
    /\ clock = Now0
    /\ currentSubscription = Null
    /\ currentEvents = NoEvents
    /\ openSubscriptions = 0
    /\ rendered = NoReport
    /\ outcome = "loaded"
    /\ delivered = NoneDelivered
    /\ call = NoCall

\* Mutant of startAnalysis: the collections are not emptied.
startAnalysisNoReset(pubkeyOk, relaysOk) ==
    LET closed == IF currentSubscription # Null
                  THEN openSubscriptions - 1 ELSE openSubscriptions
    IN  /\ delivered' = NoneDelivered
        /\ IF pubkeyOk /\ relaysOk
           THEN /\ currentSubscription' = Subscription
                /\ openSubscriptions' = closed + 1
                /\ outcome' = "subscribed"
           ELSE /\ currentSubscription' = Null
                /\ openSubscriptions' = closed
                /\ outcome' = "error"
        /\ UNCHANGED <<clock, currentEvents, rendered, call>>

\* startAnalysis(pubkeyInput, relaysStr): pubkeyOk says that parsePubkey
\* accepts the input, relaysOk that parseRelays finds a wss:// relay.  The
\* previous subscription is closed, the collections are emptied, and a new
\* subscription is opened unless the input is rejected.
startAnalysis(pubkeyOk, relaysOk) ==
    LET closed == IF currentSubscription # Null
                  THEN openSubscriptions - 1 ELSE openSubscriptions
    IN  /\ currentEvents' = NoEvents
        /\ delivered' = NoneDelivered
        /\ IF pubkeyOk /\ relaysOk
           THEN /\ currentSubscription' = Subscription
                /\ openSubscriptions' = closed + 1
                /\ outcome' = "subscribed"
           ELSE /\ currentSubscription' = Null
                /\ openSubscriptions' = closed
                /\ outcome' = "error"
        /\ UNCHANGED <<clock, rendered, call>>

\* The onevent handler of subscribeMostroEvents followed by the onEvent
\* callback of startAnalysis and updateMetrics.  An exception of
\* computeMetrics leaves the callback before renderReport; an open
\* subscription delivers valid Nostr events only, so this does not happen
\* with the events of OrderUniverse.
onEvent(event) ==
    LET type   == IF event.kind = DEV_FEE_EVENT_KIND THEN "devFee" ELSE "order"
        pushed == IF type = "devFee"
                  THEN [currentEvents EXCEPT !.devFeeEvents = Append(@, event)]
                  ELSE [currentEvents EXCEPT !.orderEvents = Append(@, event)]
        metrics == computeMetrics(pushed.devFeeEvents, pushed.orderEvents)
    IN  /\ currentSubscription # Null
        /\ event.kind = DEV_FEE_EVENT_KIND
              => Len(currentEvents.devFeeEvents) < MaxDevFeeEvents
        /\ event.kind # DEV_FEE_EVENT_KIND
              => Len(currentEvents.orderEvents) < MaxOrderEvents
        /\ currentEvents' = pushed
        /\ delivered' = IF event.kind = DEV_FEE_EVENT_KIND
                        THEN [delivered EXCEPT !.devFee = @ + 1]
                        ELSE [delivered EXCEPT !.order = @ + 1]
        /\ IF Len(pushed.devFeeEvents) = 0 /\ Len(pushed.orderEvents) = 0
           THEN UNCHANGED <<rendered, outcome>>
           ELSE IF metrics = TypeError
           THEN /\ outcome' = "threw"
                /\ UNCHANGED rendered
           ELSE /\ rendered' = metrics
                /\ outcome' = "rendered"
        /\ UNCHANGED <<clock, currentSubscription, openSubscriptions, call>>

\* Time passes.
Tick ==
    /\ clock < Now0 + MaxTicks * ClockStep
    /\ clock' = clock + ClockStep
    /\ UNCHANGED <<currentSubscription, currentEvents, openSubscriptions,
                   rendered, outcome, delivered, call>>

Next ==
    \/ \E pubkeyOk \in BOOLEAN, relaysOk \in BOOLEAN :
          startAnalysis(pubkeyOk, relaysOk)
    \/ \E event \in OrderUniverse \cup DevFeeUniverse : onEvent(event)
    \/ Tick

Spec == Init /\ [][Next]_vars

\* ------------------------------------------------------------ direct calls
\* Specifications that call one exported function of metrics.js on inputs
\* drawn from bounded sets; call.results collects what the calls return.

\* All sequences over S of length at most n.
SeqsUpTo(S, n) == UNION {[1..k -> S] : k \in 0..n}

AppIdle ==
    /\ currentSubscription = Null
    /\ openSubscriptions = 0
    /\ rendered = NoReport
    /\ outcome = "loaded"
    /\ delivered = NoneDelivered

AppUnchanged ==
    UNCHANGED <<currentSubscription, currentEvents, openSubscriptions,
                rendered, outcome, delivered>>

\* Record the value of one more call.
Returned(value) == call' = [call EXCEPT !.results = Append(@, value)]

\* -- computeMetrics(devFeeEvents, orderEvents), called twice while time passes

MaxCallEvents == 2

MaxCallDevFeeEvents == 2

InitMetrics ==
    /\ AppIdle
    /\ clock = Now0
    /\ currentEvents \in
          {[devFeeEvents |-> d, orderEvents |-> o] :
              d \in SeqsUpTo(DevFeeUniverse, MaxCallDevFeeEvents),
              o \in SeqsUpTo(OrderUniverse \cup MalformedUniverse, MaxCallEvents)}
    /\ call = [fn |-> "computeMetrics", results |-> << >>]

InvokeComputeMetrics ==
    /\ Len(call.results) < 2
    /\ Returned(computeMetrics(currentEvents.devFeeEvents,
                               currentEvents.orderEvents))
    /\ UNCHANGED clock
    /\ AppUnchanged

TickMetrics ==
    /\ clock < Now0 + MaxTicks * ClockStep
    /\ clock' = clock + ClockStep
    /\ UNCHANGED call
    /\ AppUnchanged

NextMetrics == InvokeComputeMetrics \/ TickMetrics

SpecMetrics == InitMetrics /\ [][NextMetrics]_vars

\* -- computeTradeStats(amounts)

MaxAmounts == 4

AmountUniverse == {10, 15, 1000}

InitTradeStats ==
    /\ AppIdle
    /\ clock = Now0
    /\ currentEvents = NoEvents
    /\ call \in {[fn |-> "computeTradeStats", amounts |-> a, results |-> << >>] :
                    a \in SeqsUpTo(AmountUniverse, MaxAmounts)}

InvokeComputeTradeStats ==
    /\ call.results = << >>
    /\ Returned([stats         |-> computeTradeStats(call.amounts),
                  hasTradeStats |-> HasTradeStats(call.amounts)])
    /\ UNCHANGED clock
    /\ AppUnchanged

SpecTradeStats == InitTradeStats /\ [][InvokeComputeTradeStats]_vars

\* -- computeActivityConsistency(timestamps, now)

MaxTimestamps == 2

\* Values of now: in the middle of a day, and on a day boundary.
NowUniverse == {Now0, Days(500)}

TimestampUniverse ==
    {Now0 - Days(40), Now0 - Days(30) - 1, Now0 - Days(30), Now0 - Days(15),
     Now0 - Days(2), Now0 - Days(2) + 60, Now0}

\* The longest run of trades on consecutive days that is explored.
MaxDailyTrades == 31

\* One trade a day on the k days that end at now, at the time of day of now.
DailyTrades(now, k) == [i \in 1..k |-> now - Days(i - 1)]

InitConsistency ==
    /\ AppIdle
    /\ clock = Now0
    /\ currentEvents = NoEvents
    /\ \E n \in NowUniverse :
          call \in {[fn |-> "computeActivityConsistency", timestamps |-> t,
                     now |-> n, results |-> << >>] :
                      t \in SeqsUpTo(TimestampUniverse, MaxTimestamps)
                             \cup {DailyTrades(n, k) : k \in 0..MaxDailyTrades}}

InvokeComputeActivityConsistency ==
    /\ call.results = << >>
    /\ Returned(computeActivityConsistency(call.timestamps, call.now))
    /\ UNCHANGED clock
    /\ AppUnchanged

SpecConsistency == InitConsistency /\ [][InvokeComputeActivityConsistency]_vars

\* -- calculateScore(daysActive, volumeSats, successfulOrders)

ScoreGrid == 3

\* One eighth of a point of the age term, in seconds of activity, and one
\* eighth of a point of the volume term, in sats.
AgeEighth == (365 * SECONDS_PER_DAY) \div (30 * 8)

VolEighth == 100000000 \div (40 * 8)

AgeUniverse ==
    {a * AgeEighth : a \in (0..ScoreGrid) \cup {239, 240, 241}}
        \cup {1, 8 * AgeEighth - 1}

VolUniverse ==
    {b * VolEighth : b \in (0..ScoreGrid) \cup {319, 320, 321}}
        \cup {1, 8 * VolEighth - 1}

CountUniverse == (0..ScoreGrid) \cup {99, 100, 101}

InitScore ==
    /\ AppIdle
    /\ clock = Now0
    /\ currentEvents = NoEvents
    /\ call \in {[fn |-> "calculateScore",
                   daysActive |-> [num |-> a, den |-> SECONDS_PER_DAY],
                   volumeSats |-> v, successfulOrders |-> c,
                   results |-> << >>] :
                    a \in AgeUniverse, v \in VolUniverse, c \in CountUniverse}

InvokeCalculateScore ==
    /\ call.results = << >>
    /\ Returned(calculateScore(call.daysActive, call.volumeSats,
                                call.successfulOrders))
    /\ UNCHANGED clock
    /\ AppUnchanged

SpecScore == InitScore /\ [][InvokeCalculateScore]_vars

\* ------------------------------------------------------------ claims

HasId(event) == Truthy(getTagValue(event, S_d))

IdOf(event) == getTagValue(event, S_d).chars

\* The positions of orderEvents that carry the identifier id.
PositionsOf(orderEvents, id) ==
    {i \in 1..Len(orderEvents) :
        HasId(orderEvents[i]) /\ IdOf(orderEvents[i]) = id}

IdsSeen(orderEvents) ==
    {IdOf(orderEvents[i]) : i \in {j \in 1..Len(orderEvents) : HasId(orderEvents[j])}}

\* The positions of the events with the greatest created_at among those
\* carrying id.
LatestPositions(orderEvents, id) ==
    {i \in PositionsOf(orderEvents, id) :
        \A j \in PositionsOf(orderEvents, id) :
            orderEvents[j].created_at <= orderEvents[i].created_at}

\* orderEvents without the events that have no identifier and without the
\* events that are older than another event of the same identifier.
WithoutSuperseded(orderEvents) ==
    SelectSeq(orderEvents,
              LAMBDA e : /\ HasId(e)
                         /\ \A j \in PositionsOf(orderEvents, IdOf(e)) :
                               orderEvents[j].created_at <= e.created_at)

\* The report fields that are derived from the canonical orders.
CanonicalFields ==
    {"uniqueOrders", "successfulTrades", "totalVolumeSats", "minTrade",
     "maxTrade", "meanTrade", "medianTrade", "hasTradeStats", "trades7d",
     "trades30d", "trades90d", "activeDays30d", "maxInactiveGap"}

\* C1: computeMetrics keeps exactly one record per distinct (non-empty) 'd'
\* identifier, the kept record is an event of that identifier with the
\* greatest created_at, and the fields derived from the canonical orders are
\* the same as if the superseded events (and those without identifier) had
\* never been in the collection.
C1_DedupKeepsLatest ==
    LET ord == currentEvents.orderEvents
        dev == currentEvents.devFeeEvents
        map == Dedup(ord).ordersMap
        r   == computeMetrics(dev, ord)
        c   == computeMetrics(dev, WithoutSuperseded(ord))
    IN  /\ r.kind = "report"
        /\ r.uniqueOrders = Cardinality(IdsSeen(ord))
        /\ {map[i].key : i \in 1..Len(map)} = IdsSeen(ord)
        /\ \A i \in 1..Len(map) :
              \E p \in LatestPositions(ord, map[i].key) : map[i].value = ord[p]
        /\ \A f \in CanonicalFields : r[f] = c[f]
        /\ outcome = "rendered" => rendered.uniqueOrders = Cardinality(IdsSeen(ord))

\* C1 witness: an older event of an identifier was delivered after a newer
\* one with another status, and a report was rendered.
C1_Witness ==
    LET ord == currentEvents.orderEvents
    IN  /\ outcome = "rendered"
        /\ \E i, j \in 1..Len(ord) :
              /\ i < j /\ HasId(ord[i]) /\ HasId(ord[j])
              /\ IdOf(ord[i]) = IdOf(ord[j])
              /\ ord[j].created_at < ord[i].created_at
              /\ getTagValue(ord[i], S_s) # getTagValue(ord[j], S_s)
        /\ rendered.successfulTrades >= 1

SetMax(S) == CHOOSE x \in S : \A y \in S : y <= x

\* The record computeMetrics keeps for id.
KeptFor(orderEvents, id) ==
    LET map == Dedup(orderEvents).ordersMap
    IN  map[MapIndex(map, id, 1)].value

\* C2 as stated: among the events of an identifier that share the greatest
\* created_at, the one iterated last is the canonical record.
C2_LaterIteratedKept ==
    LET ord == currentEvents.orderEvents
    IN  \A id \in IdsSeen(ord) :
            KeptFor(ord, id) = ord[SetMax(LatestPositions(ord, id))]

\* C2 amended: among the events of an identifier that share the greatest
\* created_at, the one iterated FIRST is the canonical record; its status is
\* the one counted.
C2_EarlierIteratedKept ==
    LET ord == currentEvents.orderEvents
    IN  \A id \in IdsSeen(ord) :
            KeptFor(ord, id) = ord[SetMin(LatestPositions(ord, id))]

\* C2 witness: two events of one identifier with the same created_at and
\* different content, the first of them kept.
C2_Witness ==
    LET ord == currentEvents.orderEvents
    IN  \E id \in IdsSeen(ord) :
            \E i, j \in LatestPositions(ord, id) :
                /\ i < j /\ ord[i] # ord[j]
                /\ KeptFor(ord, id) = ord[i]
                /\ outcome = "rendered"

\* s with the elements at positions i and j exchanged.
Swap(s, i, j) == [s EXCEPT ![i] = s[j], ![j] = s[i]]

\* C3 as stated: for the current clock, the report is the same for every
\* reordering of orderEvents and of devFeeEvents.
C3_PermutationInvariant ==
    LET ord == currentEvents.orderEvents
        dev == currentEvents.devFeeEvents
    IN  /\ \A i, j \in 1..Len(ord) :
              computeMetrics(dev, Swap(ord, i, j)) = computeMetrics(dev, ord)
        /\ \A i, j \in 1..Len(dev) :
              computeMetrics(Swap(dev, i, j), ord) = computeMetrics(dev, ord)

\* C6 as stated: daysActive of every rendered report is non-negative.
C6_DaysActiveNonNegative ==
    rendered.kind = "report" => rendered.daysActive.num >= 0

\* C8: in every report the counts form a chain
\* trades7d <= trades30d <= trades90d <= successfulTrades <= uniqueOrders
\* <= totalOrderEvents.
C8_CountChain ==
    LET r == computeMetrics(currentEvents.devFeeEvents, currentEvents.orderEvents)
        Chain(m) == /\ m.trades7d <= m.trades30d
                    /\ m.trades30d <= m.trades90d
                    /\ m.trades90d <= m.successfulTrades
                    /\ m.successfulTrades <= m.uniqueOrders
                    /\ m.uniqueOrders <= m.totalOrderEvents
    IN  /\ r.kind = "report" => Chain(r)
        /\ rendered.kind = "report" => Chain(rendered)

\* C8 witness: a rendered report in which the chain is strict in places.
C8_Witness ==
    /\ rendered.kind = "report"
    /\ 1 <= rendered.trades7d
    /\ rendered.trades30d < rendered.trades90d
    /\ rendered.uniqueOrders < rendered.totalOrderEvents

\* C4 as stated: two invocations of computeMetrics on the same unchanged
\* collections return the same report, however the clock moves in between.
C4_SameReportWhenRepeated ==
    (call.fn = "computeMetrics" /\ Len(call.results) = 2)
        => call.results[1] = call.results[2]

\* C5 as stated: on malformed events getTagValue returns an absent value and
\* computeMetrics returns a report; neither throws.
C5_NeverThrows ==
    (call.fn = "computeMetrics" /\ Len(call.results) > 0) =>
        /\ \A i \in 1..Len(call.results) : call.results[i].kind = "report"
        /\ \A i \in 1..Len(currentEvents.orderEvents) :
              \A tagName \in {S_d, S_s, S_amt} :
                  getTagValue(currentEvents.orderEvents[i], tagName).kind
                      \in {"null", "undefined", "string"}

\* The score of inputs that are whole eighths of a point, computed over the
\* common denominator 40 with one floor.
ScoreOnGrid(daysActive, volumeSats, successfulOrders) ==
    (5 * Min(240, daysActive.num \div AgeEighth)
     + 5 * Min(320, volumeSats \div VolEighth)
     + 12 * Min(100, successfulOrders)) \div 40

OnGrid(c) == c.daysActive.num % AgeEighth = 0 /\ c.volumeSats % VolEighth = 0

C9_ZeroActivity ==
    (call.fn = "computeActivityConsistency" /\ Len(call.results) = 1) =>
        ( (\A i \in 1..Len(call.timestamps) :
               call.timestamps[i] < call.now - 30 * SECONDS_PER_DAY)
          => call.results[1] = [activeDays |-> 0, maxGap |-> 30] )

\* C9 witness: a call whose timestamps all lie before the window, one of
\* them a second before it.
C9_Witness ==
    /\ call.fn = "computeActivityConsistency" /\ Len(call.results) = 1
    /\ Len(call.timestamps) = 2
    /\ \A i \in 1..Len(call.timestamps) :
          call.timestamps[i] < call.now - 30 * SECONDS_PER_DAY
    /\ \E i \in 1..Len(call.timestamps) :
          call.timestamps[i] = call.now - 30 * SECONDS_PER_DAY - 1
    /\ call.results[1].maxGap = 30

\* The k-th smallest element of the non-empty sequence a.
KthSmallest(a, k) ==
    CHOOSE v \in {a[i] : i \in 1..Len(a)} :
        /\ Cardinality({i \in 1..Len(a) : a[i] < v}) < k
        /\ k <= Cardinality({i \in 1..Len(a) : a[i] <= v})

\* C10: computeTradeStats returns the extrema, the unrounded mean sum/count,
\* and as median the middle value (odd count) or the floor of the average of
\* the two middle values (even count), so min <= median <= max and
\* min <= mean <= max; for [10, 10, 10, 1000] mean = 257.5 and median = 10;
\* on the empty list all four are 0 and hasTradeStats is false.
C10_TradeStats ==
    (call.fn = "computeTradeStats" /\ Len(call.results) = 1) =>
        LET a == call.amounts
            n == Len(a)
            r == call.results[1].stats
        IN  IF n = 0
            THEN /\ r.min = 0 /\ r.max = 0 /\ r.median = 0
                 /\ r.mean.num = 0 /\ r.mean.den > 0
                 /\ ~call.results[1].hasTradeStats
            ELSE /\ r.min = KthSmallest(a, 1)
                 /\ r.max = KthSmallest(a, n)
                 /\ r.mean.den > 0
                 /\ r.mean.num * n = SumSeq(a) * r.mean.den
                 /\ r.median = IF n % 2 = 1
                               THEN KthSmallest(a, (n + 1) \div 2)
                               ELSE (KthSmallest(a, n \div 2)
                                     + KthSmallest(a, n \div 2 + 1)) \div 2
                 /\ r.min <= r.median /\ r.median <= r.max
                 /\ r.min * r.mean.den <= r.mean.num
                 /\ r.mean.num <= r.max * r.mean.den
                 /\ call.results[1].hasTradeStats
                 /\ a = <<10, 10, 10, 1000>> =>
                       /\ 2 * r.mean.num = 515 * r.mean.den
                       /\ r.median = 10

\* C10 witness: the statistics of [10, 10, 10, 1000].
C10_Witness ==
    /\ call.fn = "computeTradeStats" /\ Len(call.results) = 1
    /\ call.amounts = <<10, 10, 10, 1000>>
    /\ call.results[1].stats.median = 10
    /\ call.results[1].stats.max = 1000

\* The identifiers whose canonical record has status 'success'.
SuccessIds(orderEvents) ==
    {id \in IdsSeen(orderEvents) :
        getTagValue(KeptFor(orderEvents, id), S_s) = Str(S_success)}

\* The value of a string of decimal digits.
RECURSIVE DecimalValue(_)
DecimalValue(chars) ==
    IF chars = << >> THEN 0
    ELSE 10 * DecimalValue(SubSeq(chars, 1, Len(chars) - 1))
         + DigitVal(chars[Len(chars)])

\* Whether the amt tag of event is present and is a positive integer in
\* decimal notation.
HasPositiveIntegerAmt(event) ==
    LET amtStr == getTagValue(event, S_amt)
    IN  /\ Truthy(amtStr)
        /\ \A k \in 1..Len(amtStr.chars) : amtStr.chars[k] \in Digits
        /\ DecimalValue(amtStr.chars) > 0

\* The identifiers of the successful canonical orders with such an amt.
AmountIds(orderEvents) ==
    {id \in SuccessIds(orderEvents) :
        HasPositiveIntegerAmt(KeptFor(orderEvents, id))}

\* The sum of the amt values of the canonical records of ids.
RECURSIVE AmtSum(_, _)
AmtSum(orderEvents, ids) ==
    IF ids = {} THEN 0
    ELSE LET id == CHOOSE x \in ids : TRUE
         IN  DecimalValue(getTagValue(KeptFor(orderEvents, id), S_amt).chars)
             + AmtSum(orderEvents, ids \ {id})

\* C11 as stated: every canonical order with status 'success' counts in
\* successfulTrades, but only those whose amt is a positive integer add to
\* totalVolumeSats and to the amounts of the statistics (an absent,
\* non-numeric or non-integer amt adds nothing); meanTrade times the number
\* of included amounts is totalVolumeSats; orders of another status add
\* nothing.
C11_OnlyPositiveIntegerAmounts ==
    LET ord == currentEvents.orderEvents
        r   == computeMetrics(currentEvents.devFeeEvents, ord)
        n   == Cardinality(AmountIds(ord))
    IN  /\ r.successfulTrades = Cardinality(SuccessIds(ord))
        /\ r.trades90d <= r.successfulTrades
        /\ r.totalVolumeSats = AmtSum(ord, AmountIds(ord))
        /\ r.hasTradeStats = (n > 0)
        /\ n > 0 => r.meanTrade = [num |-> r.totalVolumeSats, den |-> n]

\* The created_at of the successful canonical orders.
SuccessTimestamps(orderEvents) ==
    {KeptFor(orderEvents, id).created_at : id \in SuccessIds(orderEvents)}

\* C12 as stated: lastTrade is the greatest created_at among the canonical
\* orders whose status is 'success', daysSinceLast is the whole number of
\* days from it to now, and lastTrade is null exactly when no canonical order
\* is successful.
C12_LastTradeIsLatestSuccess ==
    LET ord == currentEvents.orderEvents
        r   == computeMetrics(currentEvents.devFeeEvents, ord)
        S   == SuccessTimestamps(ord)
    IN  /\ (r.lastTrade = Null) <=> (S = {})
        /\ S # {} =>
              /\ r.lastTrade = Num(SetMax(S))
              /\ r.daysSinceLast = (clock - SetMax(S)) \div SECONDS_PER_DAY

\* Of the orders with the created_at ts, those not earlier than days days
\* before the clock.
TradesSince(ts, days) ==
    {id \in DOMAIN ts : ts[id] >= clock - days * SECONDS_PER_DAY}

\* C13: trades7d, trades30d and trades90d are the numbers of successful
\* canonical orders whose created_at ts satisfies ts >= now - W * 86400 for
\* W = 7, 30, 90: the lower bound is inclusive and there is no upper bound.
C13_RollingWindows ==
    LET ord == currentEvents.orderEvents
        r   == computeMetrics(currentEvents.devFeeEvents, ord)
        ts  == [id \in SuccessIds(ord) |-> KeptFor(ord, id).created_at]
    IN  /\ r.trades7d  = Cardinality(TradesSince(ts, 7))
        /\ r.trades30d = Cardinality(TradesSince(ts, 30))
        /\ r.trades90d = Cardinality(TradesSince(ts, 90))

\* C13 witness: a rendered report that counts a trade exactly 7 days old and
\* a trade dated after the clock in all three windows, and an older trade in
\* the 90-day window only.
C13_Witness ==
    LET ord == currentEvents.orderEvents
        S   == SuccessTimestamps(ord)
    IN  /\ outcome = "rendered"
        /\ clock - 7 * SECONDS_PER_DAY \in S
        /\ \E ts \in S : ts > clock
        /\ rendered.trades7d = 2
        /\ rendered.trades30d = 2
        /\ rendered.trades90d = 3
        /\ rendered = computeMetrics(currentEvents.devFeeEvents, ord)

\* The calendar days of the timestamps.
TradeDays(timestamps) ==
    {timestamps[i] \div SECONDS_PER_DAY : i \in 1..Len(timestamps)}

\* The length of the longest run of consecutive days of first..last that
\* are not in days.
LongestRunWithout(days, first, last) ==
    LET Free(a, b) == \A d \in a..b : d \notin days
        lengths == {l \in 1..(last - first + 1) :
                       \E a \in first..(last - l + 1) : Free(a, a + l - 1)}
    IN  IF lengths = {} THEN 0 ELSE SetMax(lengths)

\* C14: when no timestamp is later than now, the maxGap of
\* computeActivityConsistency is the length of the longest run of
\* consecutive calendar days without a trade among the 30 days
\* floor(now/86400) - 29 .. floor(now/86400).
C14_MaxGapIsLongestInactiveRun ==
    (call.fn = "computeActivityConsistency" /\ Len(call.results) = 1) =>
        ( (\A i \in 1..Len(call.timestamps) : call.timestamps[i] <= call.now)
          => LET today == call.now \div SECONDS_PER_DAY
             IN  call.results[1].maxGap =
                    LongestRunWithout(TradeDays(call.timestamps),
                                      today - 29, today) )

\* C14 witness: trades 15 and 2 days before now; the longest run is the one
\* of 14 days before the first trade, longer than the 12 days between the
\* trades and the 2 days after the last.
C14_Witness ==
    /\ call.fn = "computeActivityConsistency" /\ Len(call.results) = 1
    /\ call.timestamps = <<call.now - Days(15), call.now - Days(2)>>
    /\ call.results[1] = [activeDays |-> 2, maxGap |-> 14]

\* C17 as stated: when no timestamp is later than now, activeDays is at
\* most 30.
C17_ActiveDaysAtMost30 ==
    (call.fn = "computeActivityConsistency" /\ Len(call.results) = 1) =>
        ( (\A i \in 1..Len(call.timestamps) : call.timestamps[i] <= call.now)
          => call.results[1].activeDays <= 30 )

\* The created_at of all events of a collection.
CreatedAts(events) == {events[i].created_at : i \in 1..Len(events)}

\* C15: with at least one dev-fee event, firstActivity is the least
\* created_at of the dev-fee events whatever their order, hasDevFeeEvents is
\* true and daysActive = (now - firstActivity) / 86400; with none,
\* firstActivity is null, hasDevFeeEvents is false and daysActive is the span
\* between the least and the greatest created_at of all raw order events
\* (superseded ones and ones without identifier included) divided by 86400,
\* and 0 when there is no order event.
C15_LongevityResolution ==
    LET ord == currentEvents.orderEvents
        dev == currentEvents.devFeeEvents
        r   == computeMetrics(dev, ord)
    IN  r.kind = "report" =>
          IF dev # << >>
          THEN /\ r.firstActivity = Num(SetMin(CreatedAts(dev)))
               /\ r.hasDevFeeEvents
               /\ r.daysActive = [num |-> clock - SetMin(CreatedAts(dev)),
                                  den |-> SECONDS_PER_DAY]
          ELSE /\ r.firstActivity = Null
               /\ ~r.hasDevFeeEvents
               /\ r.daysActive =
                     [num |-> IF ord = << >> THEN 0
                              ELSE SetMax(CreatedAts(ord)) - SetMin(CreatedAts(ord)),
                      den |-> SECONDS_PER_DAY]

\* C15 witness: computeMetrics has returned a report for two dev-fee events
\* of which the second is the older one.
C15_Witness ==
    LET dev == currentEvents.devFeeEvents
    IN  /\ call.fn = "computeMetrics" /\ Len(call.results) >= 1
        /\ Len(dev) = 2 /\ dev[2].created_at < dev[1].created_at
        /\ call.results[1].kind = "report"
        /\ call.results[1].firstActivity = Num(dev[2].created_at)
        /\ call.results[1].hasDevFeeEvents
        /\ Len(currentEvents.orderEvents) >= 1

\* Reached as well: without dev-fee events, the span of the order events is
\* bounded by an event without identifier and a superseded event.
C15_RawSpanReached ==
    LET ord == currentEvents.orderEvents
    IN  /\ call.fn = "computeMetrics" /\ Len(call.results) >= 1
        /\ currentEvents.devFeeEvents = << >>
        /\ Len(ord) = 2 /\ ~HasId(ord[1]) /\ HasId(ord[2])
        /\ call.results[1].kind = "report"
        /\ call.results[1].uniqueOrders = 1
        /\ call.results[1].daysActive.num = ord[2].created_at - ord[1].created_at
        /\ call.results[1].daysActive.num > 0

\* The report fields that do not depend on the clock.
ClockFreeFields ==
    {"firstActivity", "hasDevFeeEvents", "lastTrade", "successfulTrades",
     "totalVolumeSats", "minTrade", "maxTrade", "meanTrade", "medianTrade",
     "hasTradeStats", "totalOrderEvents", "uniqueOrders", "devFeeCount"}

\* C16: every delivered event is in exactly one of the two collections, and
\* the report on the page was computed over the full collections after the
\* last delivery; startAnalysis closes the previous subscription and empties
\* the collections, so that at most one subscription is open and the
\* rendered totalOrderEvents and devFeeCount are the numbers of events
\* delivered since the last startAnalysis.
C16_AppLoopAccounting ==
    LET ord == currentEvents.orderEvents
        dev == currentEvents.devFeeEvents
        r   == computeMetrics(dev, ord)
    IN  /\ Len(ord) = delivered.order
        /\ Len(dev) = delivered.devFee
        /\ openSubscriptions <= 1
        /\ (currentSubscription = Null) <=> (openSubscriptions = 0)
        /\ (outcome = "rendered") <=> (delivered # NoneDelivered)
        /\ outcome = "rendered" =>
              /\ rendered.kind = "report"
              /\ rendered.totalOrderEvents = delivered.order
              /\ rendered.devFeeCount = delivered.devFee
              /\ \A f \in ClockFreeFields : rendered[f] = r[f]

\* C16 witness: after a report over order events and a dev-fee event was
\* rendered, startAnalysis has run again: the collections are empty, one
\* subscription is open, and nothing has been delivered to it yet.
C16_Witness ==
    /\ outcome = "subscribed"
    /\ rendered.kind = "report"
    /\ rendered.totalOrderEvents >= 2
    /\ rendered.devFeeCount = 1
    /\ currentEvents = NoEvents
    /\ delivered = NoneDelivered
    /\ openSubscriptions = 1
    /\ currentSubscription # Null

\* s with x inserted after its first p elements.
InsertAt(s, p, x) == SubSeq(s, 1, p) \o <<x>> \o SubSeq(s, p + 1, Len(s))

\* Whether two reports agree on every field but the one named.
SameExcept(r1, r2, field) ==
    \A f \in (DOMAIN r1) \ {field} : r1[f] = r2[f]

\* C18 as stated: adding to orderEvents, at any position, a duplicate of an
\* event that is already in it changes no field of the report but
\* totalOrderEvents, and adding a duplicate of a dev-fee event changes no
\* field but devFeeCount.
C18_DuplicatesChangeOnlyCounts ==
    LET ord == currentEvents.orderEvents
        dev == currentEvents.devFeeEvents
        r   == computeMetrics(dev, ord)
    IN  /\ \A i \in 1..Len(ord) : \A p \in 0..Len(ord) :
              SameExcept(r, computeMetrics(dev, InsertAt(ord, p, ord[i])),
                         "totalOrderEvents")
        /\ \A i \in 1..Len(dev) : \A p \in 0..Len(dev) :
              SameExcept(r, computeMetrics(InsertAt(dev, p, dev[i]), ord),
                         "devFeeCount")

====
